---- MODULE Spec2Model ----
(***************************************************************************)
(* Model of the sanitize-request library: the recursive Sanitizer          *)
(* (utils/sanitizer.ts), the named configurations                          *)
(* (config/sanitizationConfigs.ts) and the sanitizeRequest and             *)
(* sanitizeStrings middlewares (middleware/).                              *)
(*                                                                         *)
(* JavaScript values are tagged records; JavaScript strings are TLA+       *)
(* strings (Len, SubSeq and \o act on them character by character).        *)
(***************************************************************************)
EXTENDS Integers, Sequences, FiniteSets, TLC

(***************************************************************************)
(* Bounds of the model.                                                    *)
(***************************************************************************)
\* maxStringLength of the inline configurations the model calls with
MaxStringLength == 4
\* number of calls made one after another
MaxCalls == 2
\* nesting depth of the generated input trees
MaxDepth == 2
\* the markup filter may raise on its 1st .. MaxFailAt-th invocation of a call
MaxFailAt == 2

(***************************************************************************)
(* JavaScript values.                                                      *)
(***************************************************************************)
Null == [t |-> "null"]
Undefined == [t |-> "undefined"]
Num(n) == [t |-> "number", n |-> n]
Bool(b) == [t |-> "boolean", b |-> b]
Str(s) == [t |-> "string", s |-> s]
Arr(items) == [t |-> "array", items |-> items]
\* an object is the sequence of its own enumerable entries, in Object.entries order
Obj(entries) == [t |-> "object", entries |-> entries]
Entry(k, v) == [k |-> k, v |-> v]

\* an optional field name: `fieldName?: string`
NoField == [def |-> FALSE, s |-> ""]
Field(s) == [def |-> TRUE, s |-> s]
\* JavaScript truthiness of `fieldName`: undefined and "" are falsy
Truthy(fieldName) == fieldName.def /\ fieldName.s # ""

SENSITIVE_FIELDS ==
  {"password", "confirmPassword", "passwordConfirm", "adminPassword", "token",
   "accessToken", "refreshToken", "apiKey", "secret", "privateKey", "jwt",
   "sessionId", "csrfToken", "authToken"}

(***************************************************************************)
(* The markup filter, DOMPurify.sanitize(input, purifyConfig), as the      *)
(* sanitizer calls it.  The library parses the string as an HTML fragment, *)
(* removes every element whose tag is not in ALLOWED_TAGS (with its        *)
(* content unless KEEP_CONTENT), and serialises the tree again: open       *)
(* elements are closed, an unfinished tag at the end of the input is       *)
(* dropped, character references are decoded and the characters & < > of   *)
(* text are written as &amp; &lt; &gt;.  An attribute of a kept element is  *)
(* kept when its name is in ALLOWED_ATTR, whatever the element.  Inputs    *)
(* are limited to tags that are properly nested or left open, with at most *)
(* one attribute, written name="value" with a value of letters and digits. *)
(***************************************************************************)
Letters == {"a", "b", "d", "e", "f", "g", "h", "i", "l", "m", "p", "r", "t", "u"}

CharAt(s, i) == IF i >= 1 /\ i <= Len(s) THEN SubSeq(s, i, i) ELSE ""

\* the word w stands in s at position i
StartsAt(s, i, w) == i + Len(w) - 1 <= Len(s) /\ SubSeq(s, i, i + Len(w) - 1) = w

\* index of the first ">" at or after i, 0 when there is none
RECURSIVE FindGt(_, _)
FindGt(s, i) ==
  IF i > Len(s) THEN 0
  ELSE IF CharAt(s, i) = ">" THEN i
  ELSE FindGt(s, i + 1)

\* index of the last character of the run of letters that starts at i
RECURSIVE NameEnd(_, _)
NameEnd(s, i) ==
  IF CharAt(s, i + 1) \in Letters THEN NameEnd(s, i + 1) ELSE i

\* index of the first double quote at or after i, 0 when there is none
RECURSIVE FindQuote(_, _)
FindQuote(s, i) ==
  IF i > Len(s) THEN 0
  ELSE IF CharAt(s, i) = "\"" THEN i
  ELSE FindQuote(s, i + 1)

\* the attribute written after the tag name that ends at e, in a tag that ends at gt
AttributeOf(s, e, gt) ==
  LET ae == NameEnd(s, e + 2)
      quote == FindQuote(s, ae + 3)
  IN IF CharAt(s, e + 1) = " " /\ CharAt(s, e + 2) \in Letters /\ ae < gt
     THEN [present |-> TRUE,
           name |-> SubSeq(s, e + 2, ae),
           value |-> IF StartsAt(s, ae + 1, "=\"") /\ quote > 0 /\ quote < gt
                     THEN SubSeq(s, ae + 3, quote - 1) ELSE ""]
     ELSE [present |-> FALSE, name |-> "", value |-> ""]

\* serialisation of the attribute, which stays when ALLOWED_ATTR has its name
KeptAttribute(attribute, cfg) ==
  IF attribute.present /\ attribute.name \in cfg.ALLOWED_ATTR
  THEN " " \o attribute.name \o "=\"" \o attribute.value \o "\"" ELSE ""

\* serialisation of one character of a text node
EscapeText(c) ==
  CASE c = "&" -> "&amp;"
    [] c = "<" -> "&lt;"
    [] c = ">" -> "&gt;"
    [] OTHER -> c

\* the end tags written when the elements above position k of the stack close
RECURSIVE CloseTags(_, _)
CloseTags(stack, k) ==
  IF Len(stack) <= k THEN ""
  ELSE (IF stack[Len(stack)].shown THEN "</" \o stack[Len(stack)].name \o ">" ELSE "")
       \o CloseTags(SubSeq(stack, 1, Len(stack) - 1), k)

\* position of the innermost open element called name, 0 when none is open
RECURSIVE OpenIndex(_, _, _)
OpenIndex(stack, name, k) ==
  IF k = 0 THEN 0
  ELSE IF stack[k].name = name THEN k
  ELSE OpenIndex(stack, name, k - 1)

\* every open element is kept in the output
AllShown(stack) == \A k \in 1..Len(stack) : stack[k].shown

\* The walk over the input from position i with the open elements `stack`.
\* An element is shown when its tag is allowed and it is not inside a removed
\* element whose content is dropped; text is a '#text' node, which DOMPurify
\* adds to a caller-supplied ALLOWED_TAGS only under KEEP_CONTENT.
RECURSIVE Purify(_, _, _, _)
Purify(s, i, stack, cfg) ==
  LET n == Len(s)
      c == CharAt(s, i)
      c1 == CharAt(s, i + 1)
      c2 == CharAt(s, i + 2)
      text(ch, next) ==
        (IF cfg.KEEP_CONTENT THEN EscapeText(ch) ELSE "") \o Purify(s, next, stack, cfg)
  IN
  IF i > n THEN CloseTags(stack, 0)
  ELSE IF c = "<" /\ c1 \in Letters THEN
    LET e == NameEnd(s, i + 1)
        gt == FindGt(s, e + 1)
        name == SubSeq(s, i + 1, e)
        allowed == name \in cfg.ALLOWED_TAGS
        shown == allowed /\ (cfg.KEEP_CONTENT \/ AllShown(stack))
    IN IF gt = 0 THEN CloseTags(stack, 0)
       ELSE (IF shown
             THEN "<" \o name \o KeptAttribute(AttributeOf(s, e, gt), cfg) \o ">" ELSE "")
            \o Purify(s, gt + 1, Append(stack, [name |-> name, shown |-> shown]), cfg)
  ELSE IF c = "<" /\ c1 = "/" /\ c2 \in Letters THEN
    LET e == NameEnd(s, i + 2)
        gt == FindGt(s, e + 1)
        name == SubSeq(s, i + 2, e)
        k == OpenIndex(stack, name, Len(stack))
    IN IF gt = 0 THEN CloseTags(stack, 0)
       ELSE IF k = 0 THEN Purify(s, gt + 1, stack, cfg)
       ELSE CloseTags(stack, k - 1) \o Purify(s, gt + 1, SubSeq(stack, 1, k - 1), cfg)
  ELSE IF c = "<" /\ c1 = "/" /\ c2 = ">" THEN Purify(s, i + 3, stack, cfg)
  ELSE IF c = "<" /\ c1 = "/" /\ i + 1 < n THEN
    \* "</" before anything but a letter or ">" opens a comment, which is removed
    LET gt == FindGt(s, i + 2)
    IN IF gt = 0 THEN CloseTags(stack, 0) ELSE Purify(s, gt + 1, stack, cfg)
  ELSE IF c = "<" /\ c1 = "/" THEN
    \* "</" at the very end of the input is text
    (IF cfg.KEEP_CONTENT THEN "&lt;/" ELSE "") \o CloseTags(stack, 0)
  ELSE IF c = "&" /\ StartsAt(s, i + 1, "amp") THEN
    text("&", IF CharAt(s, i + 4) = ";" THEN i + 5 ELSE i + 4)
  ELSE IF c = "&" /\ StartsAt(s, i + 1, "lt") THEN
    text("<", IF CharAt(s, i + 3) = ";" THEN i + 4 ELSE i + 3)
  ELSE IF c = "&" /\ StartsAt(s, i + 1, "gt") THEN
    text(">", IF CharAt(s, i + 3) = ";" THEN i + 4 ELSE i + 3)
  ELSE text(c, i + 1)

DOMPurifySanitize(input, purifyConfig) == Purify(input, 1, <<>>, purifyConfig)

(***************************************************************************)
(* Configurations.  A SanitizationConfig is a record that has only the     *)
(* fields the caller set.                                                  *)
(***************************************************************************)
Has(config, f) == f \in DOMAIN config
\* `config.f ?? d` (and `config.f || d` for the array and object fields)
OrDefault(config, f, d) == IF Has(config, f) THEN config[f] ELSE d

Range(seq) == {seq[k] : k \in 1..Len(seq)}

RECURSIVE Flat(_)
Flat(lists) == IF lists = <<>> THEN <<>> ELSE Head(lists) \o Flat(Tail(lists))

\* Sanitizer constructor: this.config
SanitizerConfig(config) ==
  [allowedTags |-> OrDefault(config, "allowedTags", <<>>),
   allowedAttributes |-> OrDefault(config, "allowedAttributes", <<>>),
   stripIgnoreTag |-> OrDefault(config, "stripIgnoreTag", TRUE),
   stripIgnoreTagBody |-> OrDefault(config, "stripIgnoreTagBody", FALSE),
   allowEmptyTags |-> OrDefault(config, "allowEmptyTags", FALSE),
   maxTagDepth |-> OrDefault(config, "maxTagDepth", 10),
   maxStringLength |-> OrDefault(config, "maxStringLength", 10000)]

\* allowedAttributes is a sequence of [tag, attrs] entries (Object.values order)
AttributeLists(allowedAttributes) ==
  [k \in 1..Len(allowedAttributes) |-> allowedAttributes[k].attrs]

\* the purifyConfig built for every string
PurifyConfig(cfg) ==
  [ALLOWED_TAGS |-> Range(cfg.allowedTags),
   ALLOWED_ATTR |-> Range(Flat(AttributeLists(cfg.allowedAttributes))),
   KEEP_CONTENT |-> ~cfg.stripIgnoreTagBody,
   ALLOW_EMPTY_TAGS |-> cfg.allowEmptyTags]

(***************************************************************************)
(* The Sanitizer.  The traversal threads `st`: the instance's metadata and *)
(* the record of the DOMPurify.sanitize invocations made so far.  failAt   *)
(* is the number of the invocation on which the filter raises (0: never).  *)
(***************************************************************************)
NoErrors == [def |-> FALSE, list |-> <<>>]
ErrorList(list) == [def |-> TRUE, list |-> list]

\* Sanitizer.sanitize: the metadata a call starts with
FreshMetadata ==
  [sanitized |-> FALSE, warnings |-> <<>>, errors |-> <<>>, fieldsModified |-> <<>>]

FreshState == [metadata |-> FreshMetadata, purifyCalls |-> <<>>]

NotThrown == [thrown |-> FALSE]

\* a SanitizationError constructed without its field
SanitizationErrorWithoutField(message, fieldName) ==
  [thrown |-> TRUE, name |-> "SanitizationError", message |-> message, field |-> NoField]

SanitizationError(message, fieldName) ==
  [thrown |-> TRUE, name |-> "SanitizationError", message |-> message, field |-> fieldName]

\* `fieldName || 'unknown'`
FieldOrUnknown(fieldName) == IF Truthy(fieldName) THEN fieldName.s ELSE "unknown"

TruncationWarning(fieldName, originalLength, maxStringLength) ==
  "String in field '" \o FieldOrUnknown(fieldName) \o "' truncated from "
  \o ToString(originalLength) \o " to " \o ToString(maxStringLength) \o " characters"

FilterFailureMessage(fieldName) ==
  "Failed to sanitize string in field '" \o FieldOrUnknown(fieldName)
  \o "': dompurify-failure"

\* a cut that keeps one character less
TruncateOneShort(input, maxStringLength) ==
  IF maxStringLength <= 1 THEN "" ELSE SubSeq(input, 1, maxStringLength - 1)

\* input.substring(0, maxStringLength), for a string longer than maxStringLength
Truncate(input, maxStringLength) ==
  IF maxStringLength = 0 THEN "" ELSE SubSeq(input, 1, maxStringLength)

\* Sanitizer.sanitizeString from the DOMPurify.sanitize call on: cut is the input
\* after the length check, m1 the metadata after it, sanitized what the filter
\* returns when it does not raise
Filtered(input, cut, fieldName, m1, st, failAt, sanitized) ==
  LET raises == Len(st.purifyCalls) + 1 = failAt
      m2 == IF sanitized # cut
            THEN [m1 EXCEPT !.sanitized = TRUE,
                            !.fieldsModified =
                               IF Truthy(fieldName) THEN Append(@, fieldName.s) ELSE @]
            ELSE m1
      message == FilterFailureMessage(fieldName)
  IN IF raises
     THEN [value |-> Str(input),
           st |-> [metadata |-> [m1 EXCEPT !.errors = Append(@, message)],
                   purifyCalls |-> Append(st.purifyCalls,
                                          [field |-> fieldName, input |-> cut,
                                           raised |-> TRUE, output |-> ""])],
           error |-> SanitizationError(message, fieldName)]
     ELSE [value |-> Str(sanitized),
           st |-> [metadata |-> m2,
                   purifyCalls |-> Append(st.purifyCalls,
                                          [field |-> fieldName, input |-> cut,
                                           raised |-> FALSE, output |-> sanitized])],
           error |-> NotThrown]

\* the input once the length check has cut it to cfg.maxStringLength
CutToLength(input, cfg) ==
  IF Len(input) > cfg.maxStringLength THEN Truncate(input, cfg.maxStringLength) ELSE input

\* the metadata once the length check has recorded its warning
AfterLengthCheck(input, fieldName, cfg, metadata) ==
  IF Len(input) > cfg.maxStringLength
  THEN [metadata EXCEPT
          !.warnings = Append(@, TruncationWarning(fieldName, Len(input),
                                                   cfg.maxStringLength)),
          !.sanitized = TRUE]
  ELSE metadata

\* Sanitizer.sanitizeString
SanitizeStringStep(input, fieldName, cfg, st, failAt) ==
  Filtered(input, CutToLength(input, cfg), fieldName,
           AfterLengthCheck(input, fieldName, cfg, st.metadata), st, failAt,
           DOMPurifySanitize(CutToLength(input, cfg), PurifyConfig(cfg)))

\* `fieldName && SENSITIVE_FIELDS.includes(fieldName)`
IsSensitive(fieldName) == Truthy(fieldName) /\ fieldName.s \in SENSITIVE_FIELDS

\* the field name of array element number index (counted from 0)
ItemFieldName(fieldName, index) ==
  IF Truthy(fieldName)
  THEN Field(fieldName.s \o "[" \o ToString(index) \o "]")
  ELSE Field("[" \o ToString(index) \o "]")

\* fullFieldName of an object entry
FullFieldName(fieldName, key) ==
  IF Truthy(fieldName) THEN Field(fieldName.s \o "." \o key) ELSE Field(key)

\* `sanitizedObj[key] = value` on the object literal {}: the name __proto__ is the
\* accessor inherited from Object.prototype, so assigning to it sets (or, for a
\* primitive, ignores) the prototype and creates no own property
SetProperty(sanitizedObj, key, value) ==
  IF key = "__proto__" THEN sanitizedObj ELSE Append(sanitizedObj, Entry(key, value))

RECURSIVE SanitizeValue(_, _, _, _, _)
RECURSIVE SanitizeItems(_, _, _, _, _, _, _)
RECURSIVE SanitizeEntries(_, _, _, _, _, _, _)

\* value.map((item, index) => this.sanitizeValue(item, ...)), from element k on;
\* done holds the results of the elements before k
SanitizeItems(items, k, done, fieldName, cfg, st, failAt) ==
  IF k > Len(items)
  THEN [value |-> Arr(done), st |-> st, error |-> NotThrown]
  ELSE LET r == SanitizeValue(items[k], ItemFieldName(fieldName, k - 1), cfg, st, failAt)
       IN IF r.error.thrown THEN r
          ELSE SanitizeItems(items, k + 1, Append(done, r.value), fieldName, cfg,
                             r.st, failAt)

\* for (const [key, val] of Object.entries(value)) sanitizedObj[key] = ...
SanitizeEntries(entries, k, done, fieldName, cfg, st, failAt) ==
  IF k > Len(entries)
  THEN [value |-> Obj(done), st |-> st, error |-> NotThrown]
  ELSE LET r == SanitizeValue(entries[k].v, FullFieldName(fieldName, entries[k].k),
                              cfg, st, failAt)
       IN IF r.error.thrown THEN r
          ELSE SanitizeEntries(entries, k + 1, SetProperty(done, entries[k].k, r.value),
                               fieldName, cfg, r.st, failAt)

\* Sanitizer.sanitizeValue
SanitizeValue(value, fieldName, cfg, st, failAt) ==
  IF value.t \in {"null", "undefined"}
  THEN [value |-> value, st |-> st, error |-> NotThrown]
  ELSE IF IsSensitive(fieldName)
  THEN [value |-> value, st |-> st, error |-> NotThrown]
  ELSE IF value.t = "string"
  THEN SanitizeStringStep(value.s, fieldName, cfg, st, failAt)
  ELSE IF value.t = "array"
  THEN SanitizeItems(value.items, 1, <<>>, fieldName, cfg, st, failAt)
  ELSE IF value.t = "object"
  THEN SanitizeEntries(value.entries, 1, <<>>, fieldName, cfg, st, failAt)
  ELSE [value |-> value, st |-> st, error |-> NotThrown]

\* a result that hands out the metadata's error list as it is
ResultOfKeepingErrors(data, metadata) ==
  [kind |-> "return",
   data |-> data,
   sanitized |-> metadata.sanitized,
   warnings |-> metadata.warnings,
   errors |-> ErrorList(metadata.errors)]

\* the SanitizationResult a normal return builds from the metadata
ResultOf(data, metadata) ==
  [kind |-> "return",
   data |-> data,
   sanitized |-> metadata.sanitized,
   warnings |-> metadata.warnings,
   errors |-> IF Len(metadata.errors) > 0 THEN ErrorList(metadata.errors) ELSE NoErrors]

\* the end of Sanitizer.sanitize, r being what the traversal came to: the result
\* is returned, or the error the traversal threw is thrown on
OutcomeOf(r) ==
  IF r.error.thrown
  THEN [kind |-> "throw", error |-> r.error]
  ELSE ResultOf(r.value, r.st.metadata)

EndOfSanitize(r) ==
  [outcome |-> OutcomeOf(r), metadata |-> r.st.metadata, purifyCalls |-> r.st.purifyCalls]

\* Sanitizer.sanitize on a fresh Sanitizer: what sanitizeRequestData and
\* sanitizeString do.  The outcome is the result returned or the error thrown;
\* purifyCalls and metadata are what the call left behind.
Sanitize(input, config, failAt) ==
  EndOfSanitize(SanitizeValue(input, NoField, SanitizerConfig(config), FreshState, failAt))

\* a call that goes on with the metadata the call before it left behind
LeftBehind(previous) == previous

\* The metadata the traversal of a call starts from, `previous` being what the
\* call before left in its Sanitizer: sanitizeRequestData and sanitizeString
\* construct a Sanitizer of their own, and sanitize assigns a new metadata object
\* before it traverses.
StartOfCall(previous) == FreshMetadata

\* sanitizeRequestData / sanitizeString called after another call.  Both are
\* synchronous and await nothing, so a call runs to its end before the next
\* call of the same thread of execution begins.
SanitizeFrom(start, value, config, failAt, r) ==
  [input |-> value, config |-> config, failAt |-> failAt, start |-> start,
   outcome |-> OutcomeOf(r), metadata |-> r.st.metadata]

SanitizeAfter(previous, value, config, failAt) ==
  SanitizeFrom(StartOfCall(previous), value, config, failAt,
               SanitizeValue(value, NoField, SanitizerConfig(config),
                             [metadata |-> StartOfCall(previous), purifyCalls |-> <<>>],
                             failAt))

(***************************************************************************)
(* The named configurations and getConfig.                                 *)
(***************************************************************************)
Attrs(tag, attrs) == [tag |-> tag, attrs |-> attrs]

BASE_CONFIG ==
  [allowedTags |-> <<"b", "i", "em", "strong", "p", "br", "ul", "ol", "li", "a">>,
   allowedAttributes |-> <<Attrs("a", <<"href", "title">>)>>,
   stripIgnoreTag |-> TRUE, stripIgnoreTagBody |-> FALSE, allowEmptyTags |-> FALSE,
   maxTagDepth |-> 10, maxStringLength |-> 10000]

STRICT_CONFIG ==
  [allowedTags |-> <<"b", "i", "em", "strong">>,
   allowedAttributes |-> <<>>,
   stripIgnoreTag |-> TRUE, stripIgnoreTagBody |-> TRUE, allowEmptyTags |-> FALSE,
   maxTagDepth |-> 5, maxStringLength |-> 1000]

LIBERAL_CONFIG ==
  [allowedTags |-> <<"h1", "h2", "h3", "h4", "h5", "h6", "p", "br", "hr", "b", "i", "em",
                     "strong", "u", "s", "sub", "sup", "ul", "ol", "li", "a", "img",
                     "blockquote", "code", "pre", "table", "thead", "tbody", "tr", "th",
                     "td", "div", "span">>,
   allowedAttributes |-> <<Attrs("a", <<"href", "title", "target", "rel">>),
                           Attrs("img", <<"src", "alt", "title", "width", "height">>),
                           Attrs("blockquote", <<"cite">>),
                           Attrs("table", <<"class">>),
                           Attrs("th", <<"scope">>),
                           Attrs("td", <<"colspan", "rowspan">>)>>,
   allowEmptyTags |-> TRUE, maxTagDepth |-> 20, maxStringLength |-> 50000]

BLOG_CONFIG ==
  [allowedTags |-> <<"h2", "h3", "h4", "h5", "h6", "p", "br", "b", "i", "em", "strong",
                     "u", "ul", "ol", "li", "a", "img", "blockquote", "code", "div",
                     "span">>,
   allowedAttributes |-> <<Attrs("a", <<"href", "title", "rel">>),
                           Attrs("img", <<"src", "alt", "title">>),
                           Attrs("blockquote", <<"cite">>),
                           Attrs("div", <<"class">>),
                           Attrs("span", <<"class">>)>>,
   stripIgnoreTag |-> TRUE, allowEmptyTags |-> FALSE,
   maxTagDepth |-> 15, maxStringLength |-> 25000]

COMMENT_CONFIG ==
  [allowedTags |-> <<"b", "i", "em", "strong", "br", "a">>,
   allowedAttributes |-> <<Attrs("a", <<"href", "title">>)>>,
   stripIgnoreTag |-> TRUE, stripIgnoreTagBody |-> TRUE, allowEmptyTags |-> FALSE,
   maxTagDepth |-> 3, maxStringLength |-> 2000]

EMAIL_CONFIG ==
  [allowedTags |-> <<"p", "br", "b", "i", "em", "strong", "a">>,
   allowedAttributes |-> <<Attrs("a", <<"href", "title">>)>>,
   stripIgnoreTag |-> TRUE, stripIgnoreTagBody |-> TRUE, allowEmptyTags |-> FALSE,
   maxTagDepth |-> 5, maxStringLength |-> 5000]

ADMIN_CONFIG ==
  [allowedTags |-> <<"h1", "h2", "h3", "h4", "h5", "h6", "p", "br", "hr", "b", "i", "em",
                     "strong", "u", "s", "sub", "sup", "ul", "ol", "li", "a", "img",
                     "blockquote", "code", "pre", "table", "thead", "tbody", "tr", "th",
                     "td", "div", "span", "section", "article", "form", "input",
                     "textarea", "select", "option", "button", "label">>,
   allowedAttributes |-> <<Attrs("a", <<"href", "title", "target", "rel">>),
                           Attrs("img", <<"src", "alt", "title", "width", "height", "class">>),
                           Attrs("blockquote", <<"cite">>),
                           Attrs("table", <<"class">>),
                           Attrs("th", <<"scope", "class">>),
                           Attrs("td", <<"colspan", "rowspan", "class">>),
                           Attrs("div", <<"class", "id">>),
                           Attrs("span", <<"class", "id">>),
                           Attrs("form", <<"action", "method">>),
                           Attrs("input", <<"type", "name", "value", "placeholder", "required">>),
                           Attrs("textarea", <<"name", "placeholder", "required", "rows", "cols">>),
                           Attrs("select", <<"name", "required">>),
                           Attrs("option", <<"value">>),
                           Attrs("button", <<"type", "class">>),
                           Attrs("label", <<"for">>)>>,
   allowEmptyTags |-> TRUE, maxTagDepth |-> 25, maxStringLength |-> 100000]

SANITIZATION_CONFIGS ==
  [base |-> BASE_CONFIG, strict |-> STRICT_CONFIG, liberal |-> LIBERAL_CONFIG,
   blog |-> BLOG_CONFIG, comment |-> COMMENT_CONFIG, email |-> EMAIL_CONFIG,
   admin |-> ADMIN_CONFIG]

\* SANITIZATION_CONFIGS is an object literal: a property the object does not own
\* is looked up on Object.prototype, whose members are functions (or, for
\* __proto__, the prototype itself): truthy values without own enumerable
\* properties.
ObjectPrototypeNames ==
  {"constructor", "toString", "toLocaleString", "valueOf", "hasOwnProperty",
   "isPrototypeOf", "propertyIsEnumerable", "__proto__"}

EmptyConfig == <<>>

JsError(message) == [thrown |-> TRUE, name |-> "Error", message |-> message]

\* getConfig: the configuration returned, or the Error thrown
GetConfig(name) ==
  IF name \in DOMAIN SANITIZATION_CONFIGS
  THEN [error |-> NotThrown, config |-> SANITIZATION_CONFIGS[name]]
  ELSE IF name \in ObjectPrototypeNames
  THEN [error |-> NotThrown, config |-> EmptyConfig]
  ELSE [error |-> JsError("Unknown sanitization config: " \o name), config |-> EmptyConfig]

\* the tags of an allowedAttributes object, and the attribute list of one of them
TagsOf(allowedAttributes) == {allowedAttributes[k].tag : k \in 1..Len(allowedAttributes)}
AttrsOf(allowedAttributes, tag) ==
  allowedAttributes[CHOOSE k \in 1..Len(allowedAttributes) :
                      allowedAttributes[k].tag = tag].attrs

RECURSIVE SpreadOnto(_, _)
\* the own entries of `target` after the entries of `source` are spread onto it: a
\* tag that is there keeps its place and takes the new list, a new tag is added last
SpreadOnto(target, source) ==
  IF source = <<>> THEN target
  ELSE LET entry == Head(source)
           next == IF entry.tag \in TagsOf(target)
                   THEN [k \in 1..Len(target) |->
                           IF target[k].tag = entry.tag THEN entry ELSE target[k]]
                   ELSE Append(target, entry)
       IN SpreadOnto(next, Tail(source))

\* an allowedAttributes that is the overrides' own, the base's dropped
OverridesOnly(baseAttributes, overrideAttributes) == overrideAttributes

\* { ...baseConfig.allowedAttributes, ...overrides.allowedAttributes }
MergeAttributes(baseAttributes, overrideAttributes) ==
  SpreadOnto(SpreadOnto(<<>>, baseAttributes), overrideAttributes)

\* { ...baseConfig, ...overrides, allowedAttributes: { ... } }
SpreadConfigs(baseConfig, overrides) ==
  [f \in DOMAIN baseConfig \cup DOMAIN overrides \cup {"allowedAttributes"} |->
     IF f = "allowedAttributes"
     THEN MergeAttributes(OrDefault(baseConfig, f, <<>>), OrDefault(overrides, f, <<>>))
     ELSE IF Has(overrides, f) THEN overrides[f]
     ELSE baseConfig[f]]

\* createCustomConfig: the configuration returned, or the Error getConfig throws
CreateCustomConfig(base, overrides) ==
  LET resolved == IF base.kind = "name" THEN GetConfig(base.name)
                  ELSE [error |-> NotThrown, config |-> base.config]
  IN IF resolved.error.thrown THEN resolved
     ELSE [error |-> NotThrown, config |-> SpreadConfigs(resolved.config, overrides)]

(***************************************************************************)
(* The sanitizeRequest middleware.  A run is described by what it leaves   *)
(* behind: the request, the calls of next, onError and onSanitized, the    *)
(* sanitizeRequestData calls and the console.warn lines.                   *)
(***************************************************************************)
\* the word w occurs in s: s.includes(w)
Contains(s, w) == \E k \in 1..(Len(s) + 1) : StartsAt(s, k, w)

RECURSIVE Join(_, _)
Join(list, sep) ==
  IF list = <<>> THEN ""
  ELSE IF Len(list) = 1 THEN Head(list)
  ELSE Head(list) \o sep \o Join(Tail(list), sep)

NoArgument == [kind |-> "none"]
ErrorArgument(error) == [kind |-> "error", error |-> error]

Absent == [def |-> FALSE]

Effects(req) ==
  [req |-> req, nextCalls |-> <<>>, onErrorCalls |-> <<>>, onSanitizedCalls |-> <<>>,
   sanitizerCalls |-> <<>>, warnLog |-> <<>>]

\* a catch block that tells onError and leaves next uncalled
CatchWithoutNext(error, options, e) ==
  [e EXCEPT
     !.onErrorCalls = IF options.onError = "absent" THEN @
                      ELSE Append(@, [error |-> error, req |-> e.req])]

\* a catch block that wraps whatever was thrown in a new Error
CatchWrappingAll(error, options, e) ==
  LET wrapped == [thrown |-> TRUE, name |-> "Error",
                  message |-> "Request sanitization failed: " \o error.message]
  IN [e EXCEPT
        !.onErrorCalls = IF options.onError = "absent" THEN @
                         ELSE Append(@, [error |-> wrapped, req |-> e.req]),
        !.nextCalls = Append(@, [kind |-> "error", error |-> wrapped])]

\* the catch block of the middleware
Catch(error, options, e) ==
  LET sanitizationError ==
        IF error.name = "SanitizationError" THEN error
        ELSE JsError("Request sanitization failed: " \o error.message)
  IN [e EXCEPT
        !.onErrorCalls = IF options.onError = "absent" THEN @
                         ELSE Append(@, [error |-> sanitizationError, req |-> e.req]),
        !.nextCalls = Append(@, ErrorArgument(sanitizationError))]

\* `options.config ? (typeof options.config === 'string' ? getConfig(..) : ..) : getConfig('base')`
ResolveConfig(option) ==
  IF option.kind = "name" /\ option.name # "" THEN GetConfig(option.name)
  ELSE IF option.kind = "inline" THEN [error |-> NotThrown, config |-> option.config]
  ELSE GetConfig("base")

\* a test that takes no list of errors for non-empty
NeverErrors(result) == FALSE

\* `errors?.length`
HasErrors(result) == result.errors.def /\ Len(result.errors.list) > 0

\* sanitizeRequestData as the middleware imports it: the function of
\* utils/sanitizer, or the stub the middleware's test suite puts in its place
\* (jest.mock with mockReturnValue), which returns one result whatever it is given
SanitizeRequestDataCall(sanitizer, body, config, failAt) ==
  IF sanitizer.kind = "real" THEN Sanitize(body, config, failAt)
  ELSE [outcome |-> sanitizer.result, metadata |-> FreshMetadata, purifyCalls |-> <<>>]

\* the part of the handler that follows a normal return of sanitizeRequestData
AfterSanitize(run, options, e0) ==
  LET result == run.outcome
      e1 == [e0 EXCEPT !.req.body = result.data, !.sanitizerCalls = Append(@, run)]
      report == result.sanitized \/ Len(result.warnings) > 0
      sanitization == [def |-> TRUE, sanitized |-> result.sanitized,
                       warnings |-> result.warnings, errors |-> result.errors]
      e2 == IF report
            THEN [e1 EXCEPT
                    !.req.sanitization = sanitization,
                    !.warnLog = IF options.logWarnings /\ Len(result.warnings) > 0
                                THEN Append(@, result.warnings) ELSE @,
                    !.onSanitizedCalls = IF options.onSanitized = "absent" THEN @
                                         ELSE Append(@, sanitization)]
            ELSE e1
      error == JsError("Sanitization errors: " \o Join(result.errors.list, ", "))
  IN IF report /\ options.onSanitized = "throws"
     THEN Catch(JsError("onSanitized-failure"), options, e2)
     ELSE IF HasErrors(result)
     THEN [e2 EXCEPT
             !.onErrorCalls = IF options.onError = "absent" THEN @
                              ELSE Append(@, [error |-> error, req |-> e2.req]),
             !.nextCalls = Append(@, ErrorArgument(error))]
     ELSE [e2 EXCEPT !.nextCalls = Append(@, NoArgument)]

\* the part of the handler that follows the call of sanitizeRequestData, which
\* threw or returned
SanitizeBody(run, options, e0) ==
  IF run.outcome.kind = "throw"
  THEN Catch(run.outcome.error, options, [e0 EXCEPT !.sanitizerCalls = Append(@, run)])
  ELSE AfterSanitize(run, options, e0)

\* the handler sanitizeRequest(options) returns, run on req
SanitizeRequestHandler(req, options, sanitizer, failAt) ==
  LET e0 == Effects(req)
      skipped == options.skipPaths.def
                 /\ \E k \in 1..Len(options.skipPaths.list) :
                       Contains(req.path, options.skipPaths.list[k])
      resolved == ResolveConfig(options.config)
  IN IF skipped THEN [e0 EXCEPT !.nextCalls = Append(@, NoArgument)]
     ELSE IF resolved.error.thrown THEN Catch(resolved.error, options, e0)
     ELSE IF req.body.t \in {"object", "array"}
     THEN SanitizeBody(SanitizeRequestDataCall(sanitizer, req.body, resolved.config, failAt),
                       options, e0)
     ELSE [e0 EXCEPT !.nextCalls = Append(@, NoArgument)]

(***************************************************************************)
(* The sanitizeStrings middleware.                                         *)
(***************************************************************************)
\* value.replace(/[<>"'&]/g, '')
RECURSIVE StripMarkupCharacters(_)
StripMarkupCharacters(value) ==
  IF value = "" THEN ""
  ELSE (IF CharAt(value, 1) \in {"<", ">", "\"", "'", "&"} THEN "" ELSE CharAt(value, 1))
       \o StripMarkupCharacters(SubSeq(value, 2, Len(value)))

\* value.trim(), for strings whose only white space is the space
RECURSIVE Trim(_)
Trim(value) ==
  IF value = "" THEN ""
  ELSE IF CharAt(value, 1) = " " THEN Trim(SubSeq(value, 2, Len(value)))
  ELSE IF CharAt(value, Len(value)) = " " THEN Trim(SubSeq(value, 1, Len(value) - 1))
  ELSE value

DefaultSanitizer(value) == Trim(StripMarkupCharacters(value))

\* value.toUpperCase(), for the letters the model's strings have
RECURSIVE ToUpperCase(_)
ToUpperCase(value) ==
  IF value = "" THEN ""
  ELSE (CASE CharAt(value, 1) = "b" -> "B"
          [] CharAt(value, 1) = "o" -> "O"
          [] CharAt(value, 1) = "k" -> "K"
          [] OTHER -> CharAt(value, 1))
       \o ToUpperCase(SubSeq(value, 2, Len(value)))

\* `options.customSanitizer || defaultSanitizer` applied to value: what it returns,
\* or that it throws.  The custom sanitizers are the test suite's (toUpperCase, one
\* that always throws) and one that throws on a string holding "<" only.
ApplySanitizer(sanitizer, value) ==
  CASE sanitizer = "default" -> [error |-> NotThrown, value |-> DefaultSanitizer(value)]
    [] sanitizer = "upper" -> [error |-> NotThrown, value |-> ToUpperCase(value)]
    [] sanitizer = "throws" -> [error |-> JsError("Fail"), value |-> value]
    [] sanitizer = "rejects" ->
         IF Contains(value, "<") THEN [error |-> JsError("Fail"), value |-> value]
         ELSE [error |-> NotThrown, value |-> ToUpperCase(value)]

\* Object.entries(req.body): of an object its entries, of an array its elements
\* under their indices, of a string its characters under theirs
BodyEntries(body) ==
  CASE body.t = "object" -> body.entries
    [] body.t = "array" -> [k \in 1..Len(body.items) |-> Entry(ToString(k - 1), body.items[k])]
    [] body.t = "string" -> [k \in 1..Len(body.s) |-> Entry(ToString(k - 1), Str(CharAt(body.s, k)))]
    [] OTHER -> <<>>

\* `req.body[key] = value` for entry number k of the body; the code is a module,
\* hence strict, so the assignment to an index of a primitive string throws
AssignEntry(body, k, value) ==
  CASE body.t = "object" ->
         [error |-> NotThrown, body |-> [body EXCEPT !.entries[k].v = value]]
    [] body.t = "array" ->
         [error |-> NotThrown, body |-> [body EXCEPT !.items[k] = value]]
    [] OTHER ->
         [error |-> [thrown |-> TRUE, name |-> "TypeError",
                     message |-> "Cannot assign to read only property"],
          body |-> body]

\* `!req.body`
Falsy(value) ==
  \/ value.t \in {"null", "undefined"}
  \/ value.t = "string" /\ value.s = ""
  \/ value.t = "number" /\ value.n = 0
  \/ value.t = "boolean" /\ ~value.b

\* [...SENSITIVE_FIELDS, ...(options.customSensitiveFields || [])] with only the
\* built-in names
BuiltInSensitiveFields(options) == SENSITIVE_FIELDS

\* [...SENSITIVE_FIELDS, ...(options.customSensitiveFields || [])]
SensitiveFieldsOf(options) ==
  SENSITIVE_FIELDS \cup
    (IF options.customSensitiveFields.def THEN Range(options.customSensitiveFields.list)
     ELSE {})

\* the for loop over the entries taken at its start, from entry k on; e holds
\* the body as it is by now and the sanitizer calls made
RECURSIVE SanitizeStringsLoop(_, _, _, _)
SanitizeStringsLoop(entries, k, options, e) ==
  IF k > Len(entries) THEN [e EXCEPT !.nextCalls = Append(@, NoArgument)]
  ELSE LET key == entries[k].k
           value == entries[k].v
           r == ApplySanitizer(options.sanitizer, value.s)
           e1 == [e EXCEPT !.sanitizerCalls = Append(@, value.s)]
           assigned == AssignEntry(e.body, k, Str(r.value))
       IN IF value.t = "string" /\ key \notin SensitiveFieldsOf(options)
          THEN IF options.skipEmptyStrings /\ Trim(value.s) = ""
               THEN SanitizeStringsLoop(entries, k + 1, options, e)
               ELSE IF r.error.thrown
               THEN [e1 EXCEPT !.nextCalls = Append(@, ErrorArgument(r.error))]
               ELSE IF assigned.error.thrown
               THEN [e1 EXCEPT !.nextCalls = Append(@, ErrorArgument(assigned.error))]
               ELSE SanitizeStringsLoop(entries, k + 1, options,
                                        [e1 EXCEPT !.body = assigned.body])
          ELSE SanitizeStringsLoop(entries, k + 1, options, e)

\* the handler sanitizeStrings(options) returns, run on a request with this body
SanitizeStringsHandler(body, options) ==
  LET e0 == [body |-> body, nextCalls |-> <<>>, sanitizerCalls |-> <<>>]
  IN IF Falsy(body) THEN [e0 EXCEPT !.nextCalls = Append(@, NoArgument)]
     ELSE SanitizeStringsLoop(BodyEntries(body), 1, options, e0)

(***************************************************************************)
(* Inputs of the model.                                                    *)
(***************************************************************************)
\* the first n characters of "123456789"
Digits(n) == IF n = 0 THEN "" ELSE SubSeq("123456789", 1, n)

Strings ==
  {"", Digits(MaxStringLength), Digits(MaxStringLength + 1), "<u>1</u>2", "1&2", "<b>12"}

LeafValues == {Str(s) : s \in Strings} \cup {Null, Num(1), Bool(TRUE)}

\* the trees that put t one level down: second in an array, or under a key of an
\* object (an ordinary key before a sensitive sibling, a sensitive key, the
\* empty key)
Wraps(t) ==
  {Arr(<<Str(Digits(MaxStringLength + 1)), t>>),
   Obj(<<Entry("user", t), Entry("token", Str("<u>1</u>2"))>>),
   Obj(<<Entry("password", t)>>),
   Obj(<<Entry("", t)>>)}

\* payloads without strings (the test suite's, and a nested one), and parsed
\* JSON bodies that own a key named __proto__
ExtraValues ==
  {Obj(<<Entry("num", Num(1)), Entry("bool", Bool(TRUE)), Entry("nil", Null),
         Entry("undef", Undefined)>>),
   Obj(<<Entry("list", Arr(<<Num(1), Null, Obj(<<Entry("flag", Bool(TRUE))>>)>>)),
         Entry("user", Obj(<<Entry("age", Num(1)), Entry("tags", Arr(<<>>))>>))>>),
   Obj(<<Entry("__proto__", Obj(<<Entry("role", Num(1))>>)), Entry("num", Num(1))>>),
   Obj(<<Entry("__proto__", Str("1&2")), Entry("bio", Str(Digits(MaxStringLength)))>>),
   Obj(<<Entry("link", Str("<a href=\"1\">2</a>")), Entry("bold", Str("<b href=\"1\">2</b>")),
         Entry("plain", Str("<b id=\"1\">2</b>"))>>)}

RECURSIVE Trees(_)
Trees(d) ==
  IF d = 0 THEN LeafValues
  ELSE LeafValues \cup UNION {Wraps(t) : t \in Trees(d - 1)}

\* inline configurations, in the manner of the test suite's
InlineConfigs ==
  {[allowedTags |-> <<"b">>, allowedAttributes |-> <<Attrs("a", <<"href">>)>>,
    stripIgnoreTag |-> TRUE, stripIgnoreTagBody |-> FALSE, allowEmptyTags |-> FALSE,
    maxTagDepth |-> 10, maxStringLength |-> MaxStringLength],
   [allowedTags |-> <<"b">>, stripIgnoreTagBody |-> TRUE,
    maxStringLength |-> MaxStringLength],
   [allowedTags |-> <<"b">>, maxStringLength |-> 0],
   [allowedTags |-> <<"b">>],
   [allowedTags |-> <<"a", "b">>, allowedAttributes |-> <<Attrs("a", <<"href">>)>>]}

Inputs ==
  [value : {v \in Trees(MaxDepth) : v.t \in {"string", "object", "array"}} \cup ExtraValues,
   config : InlineConfigs,
   failAt : 0..MaxFailAt]

ConfigOptions ==
  {[kind |-> "undefined"]}
  \cup {[kind |-> "name", name |-> n] : n \in {"strict", "nonexistent", "constructor", ""}}

RealSanitizer == [kind |-> "real"]
StubResult(data, sanitized, warnings, errors) ==
  [kind |-> "stub",
   result |-> [kind |-> "return", data |-> data, sanitized |-> sanitized,
               warnings |-> warnings, errors |-> ErrorList(errors)]]

\* the results the test suite lets the stub return, one with two errors, and a
\* stub that throws an Error that is no SanitizationError
StubbedSanitizers ==
  {[kind |-> "stub", result |-> [kind |-> "throw", error |-> JsError("stub-failure")]],
   StubResult(Obj(<<>>), FALSE, <<>>, <<"fail">>),
   StubResult(Obj(<<Entry("content", Str("test"))>>), TRUE, <<"warn">>, <<"fail", "again">>),
   StubResult(Obj(<<Entry("content", Str(""))>>), TRUE, <<>>, <<>>)}

\* the options and the request line of a middleware run; the body and an inline
\* configuration come from the drawn input
AllRequestOptions ==
  [config : ConfigOptions \cup {[kind |-> "given"]},
   sanitizer : {RealSanitizer} \cup StubbedSanitizers,
   onSanitized : {"absent", "returns", "throws"},
   onError : {"absent", "present"},
   skipPaths : {Absent, [def |-> TRUE, list |-> <<"/auth">>]},
   logWarnings : BOOLEAN,
   path : {"/api/posts", "/api/auth/login"},
   body : {"given", "undefined"}]

\* a path is tried against skipPaths only where skipPaths is given, and a
\* request without body with the callbacks of one kind only
RequestOptions ==
  {o \in AllRequestOptions :
     /\ o.skipPaths.def \/ o.path = "/api/posts"
     /\ o.body = "given" \/ (o.onSanitized = "absent" /\ ~o.logWarnings)
     /\ o.sanitizer = RealSanitizer \/ o.config.kind \in {"given", "undefined"}}

DefaultRequestOptions ==
  [config |-> [kind |-> "given"], sanitizer |-> RealSanitizer, onSanitized |-> "absent", onError |-> "absent",
   skipPaths |-> Absent, logWarnings |-> FALSE, path |-> "/api/posts", body |-> "given"]

\* bodies with which every combination of options is tried
IsSmall(in) ==
  /\ in.value \in Wraps(Str(Digits(MaxStringLength + 1)))
  /\ in.value.t = "object"
  /\ Has(in.config, "stripIgnoreTag")
  /\ in.failAt <= 1

\* a configuration with one more field
WithField(config, f, v) ==
  [g \in DOMAIN config \cup {f} |-> IF g = f THEN v ELSE config[g]]

\* the configurations that extend one of `configs` by field f, or leave it out
Optional(configs, f, values) ==
  configs \cup {WithField(c, f, v) : c \in configs, v \in values}

\* the overrides handed to createCustomConfig
OverrideConfigs ==
  Optional(Optional(Optional(Optional({EmptyConfig},
    "allowedTags", {<<"b", "a">>}),
    "maxStringLength", {MaxStringLength}),
    "stripIgnoreTagBody", {TRUE}),
    "allowedAttributes",
    {<<>>, <<Attrs("a", <<"rel">>)>>,
     <<Attrs("video", <<"src">>), Attrs("img", <<"src">>)>>})

\* the bases: names (known, unknown, inherited from Object.prototype) and objects
BaseConfigs ==
  {[kind |-> "name", name |-> n] :
     n \in DOMAIN SANITIZATION_CONFIGS \cup {"nonexistent", "constructor"}}
  \cup {[kind |-> "inline", config |-> c] : c \in InlineConfigs \cup {EmptyConfig}}

\* the arguments of the calls made one after another: a string that is cut, an
\* object with a string that is cut and a string the filter changes, an object
\* without strings
CallInputs ==
  [value : {Str(Digits(MaxStringLength + 1)),
            Obj(<<Entry("name", Str(Digits(MaxStringLength + 1))),
                  Entry("bio", Str("<u>1</u>2"))>>),
            Obj(<<Entry("num", Num(1))>>)},
   config : {[allowedTags |-> <<"b">>, maxStringLength |-> MaxStringLength],
             [allowedTags |-> <<"b">>]},
   failAt : 0..MaxFailAt]

\* the top-level values of the bodies sanitizeStrings is run on
BodyValues ==
  {Str(""), Str("  "), Str(" <b>ok</b> & "), Str(" ok "),
   Num(1), Null, Arr(<<Str("<b>")>>), Obj(<<Entry("a", Str(" <b> "))>>)}

\* an ordinary key, a key the options may declare sensitive, a built-in
\* sensitive key
BodyKeys == {"text", "nick", "token"}

\* bodies of one and of two entries, arrays, a text body and no body
StringsBodies ==
  {Obj(<<Entry(k, v)>>) : k \in BodyKeys, v \in BodyValues}
  \cup {Obj(<<Entry(k1, v1), Entry(k2, v2)>>) :
          k1 \in BodyKeys, k2 \in BodyKeys \ {"text"}, v1 \in BodyValues, v2 \in BodyValues}
  \cup {Arr(<<v1, v2>>) : v1 \in BodyValues, v2 \in {Str(" ok "), Num(1)}}
  \cup {Str("b "), Str(""), Undefined}

StringsOptions ==
  [customSensitiveFields : {Absent, [def |-> TRUE, list |-> <<"nick">>]},
   sanitizer : {"default", "upper", "throws", "rejects"},
   skipEmptyStrings : BOOLEAN]

(***************************************************************************)
(* State.  A behaviour is one use of the library: a direct call, possibly  *)
(* followed by a second call on its result, or one request through the     *)
(* middleware.                                                             *)
(***************************************************************************)
VARIABLES
  input,    \* the argument, configuration and filter behaviour of this run
  call,     \* the latest sanitizeRequestData / sanitizeString call
  first,    \* the call whose returned data `call` sanitized again
  request,  \* the options and request of the middleware run
  mw,       \* what the middleware run left behind
  merge,    \* the createCustomConfig call made
  strings,  \* what a run of the sanitizeStrings middleware left behind
  history   \* the calls made one after another, each with what it left behind

vars == <<input, call, first, request, mw, merge, strings, history>>

\* the input of a behaviour that draws the arguments when it makes its call
NoInput == [value |-> Undefined, config |-> EmptyConfig, failAt |-> 0]
NoMerge == [done |-> FALSE]

NoCall == [op |-> "none"]
NoRun == [ran |-> FALSE]

RecordOf(op, value, config, failAt, r) ==
  [op |-> op, input |-> value, config |-> config, failAt |-> failAt,
   outcome |-> r.outcome, metadata |-> r.metadata, purifyCalls |-> r.purifyCalls]

CallRecord(op, value, config, failAt) ==
  RecordOf(op, value, config, failAt, Sanitize(value, config, failAt))

Init ==
  /\ \/ /\ input \in Inputs
        /\ request \in IF IsSmall(input)
                       THEN RequestOptions ELSE {DefaultRequestOptions}
     \/ /\ input = NoInput
        /\ request = DefaultRequestOptions
  /\ call = NoCall
  /\ first = NoCall
  /\ mw = NoRun
  /\ merge = NoMerge
  /\ strings = NoRun
  /\ history = <<>>

\* sanitizeRequestData(data, config)
SanitizeRequestData ==
  /\ call = NoCall
  /\ mw = NoRun
  /\ input.value.t \in {"object", "array"}
  /\ call' = CallRecord("sanitizeRequestData", input.value, input.config, input.failAt)
  /\ UNCHANGED <<input, first, request, mw, merge, strings, history>>

\* sanitizeString(input, config)
SanitizeString ==
  /\ call = NoCall
  /\ mw = NoRun
  /\ input.value.t = "string"
  /\ call' = CallRecord("sanitizeString", input.value, input.config, input.failAt)
  /\ UNCHANGED <<input, first, request, mw, merge, strings, history>>

\* the data a call returned is sanitized again under the same configuration
SanitizeAgain ==
  /\ call # NoCall
  /\ first = NoCall
  /\ call.outcome.kind = "return"
  /\ first' = call
  /\ call' = CallRecord(call.op, call.outcome.data, call.config, 0)
  /\ UNCHANGED <<input, request, mw, merge, strings, history>>

\* the request as Express hands it to the handler
RequestOf(opts, value) ==
  [path |-> opts.path,
   body |-> IF opts.body = "given" THEN value ELSE Undefined,
   sanitization |-> Absent]

OptionsOf(opts, config) ==
  [config |-> IF opts.config.kind = "given"
              THEN [kind |-> "inline", config |-> config] ELSE opts.config,
   onSanitized |-> opts.onSanitized, onError |-> opts.onError,
   skipPaths |-> opts.skipPaths, logWarnings |-> opts.logWarnings]

RunOf(req, options, e) ==
  [ran |-> TRUE, before |-> req, options |-> options, req |-> e.req,
   nextCalls |-> e.nextCalls, onErrorCalls |-> e.onErrorCalls,
   onSanitizedCalls |-> e.onSanitizedCalls,
   sanitizerCalls |-> e.sanitizerCalls, warnLog |-> e.warnLog]

\* one request passes through sanitizeRequest(options)
SanitizeRequest ==
  /\ input # NoInput
  /\ mw = NoRun
  /\ call = NoCall
  /\ LET req == RequestOf(request, input.value)
         options == OptionsOf(request, input.config)
     IN mw' = RunOf(req, options,
                    SanitizeRequestHandler(req, options, request.sanitizer, input.failAt))
  /\ UNCHANGED <<input, call, first, request, merge, strings, history>>

\* createCustomConfig(base, overrides)
CreateConfig ==
  /\ input = NoInput
  /\ merge = NoMerge
  /\ strings = NoRun
  /\ history = <<>>
  /\ \E base \in BaseConfigs, overrides \in OverrideConfigs :
       merge' = [done |-> TRUE, base |-> base, overrides |-> overrides,
                 outcome |-> CreateCustomConfig(base, overrides)]
  /\ UNCHANGED <<input, call, first, request, mw, strings, history>>

StringsRunOf(body, options, e) ==
  [ran |-> TRUE, before |-> body, options |-> options,
   body |-> e.body, nextCalls |-> e.nextCalls, sanitizerCalls |-> e.sanitizerCalls]

\* one request passes through sanitizeStrings(options)
SanitizeStrings ==
  /\ input = NoInput
  /\ merge = NoMerge
  /\ strings = NoRun
  /\ history = <<>>
  /\ \E body \in StringsBodies, options \in StringsOptions :
       strings' = StringsRunOf(body, options, SanitizeStringsHandler(body, options))
  /\ UNCHANGED <<input, call, first, request, mw, merge, history>>

\* one more sanitizeRequestData / sanitizeString call after those made
CallAfter ==
  /\ input = NoInput
  /\ merge = NoMerge
  /\ strings = NoRun
  /\ Len(history) < MaxCalls
  /\ \E in \in CallInputs :
       LET previous == IF history = <<>> THEN FreshMetadata
                       ELSE history[Len(history)].metadata
       IN history' = Append(history, SanitizeAfter(previous, in.value, in.config, in.failAt))
  /\ UNCHANGED <<input, call, first, request, mw, merge, strings>>

Next ==
  \/ SanitizeRequestData
  \/ SanitizeString
  \/ SanitizeAgain
  \/ SanitizeRequest
  \/ CreateConfig
  \/ SanitizeStrings
  \/ CallAfter

Spec == Init /\ [][Next]_vars
(***************************************************************************)
(* Notions the properties are stated with: the places of a tree, the key   *)
(* a place sits under and the field path the specification gives it.       *)
(***************************************************************************)
Missing == [t |-> "missing"]

KeyStep(key) == [key |-> key]
IndexStep(index) == [index |-> index]
IsKeyStep(step) == "key" \in DOMAIN step

\* the steps that lead from a node to its children (array indices count from 0)
StepsOf(value) ==
  IF value.t = "array" THEN {IndexStep(k - 1) : k \in 1..Len(value.items)}
  ELSE IF value.t = "object"
  THEN {KeyStep(value.entries[k].k) : k \in 1..Len(value.entries)}
  ELSE {}

\* the child one step down, Missing when there is none
ChildAt(value, step) ==
  IF value.t = "array" /\ ~IsKeyStep(step) /\ step.index < Len(value.items)
  THEN value.items[step.index + 1]
  ELSE IF value.t = "object" /\ IsKeyStep(step)
          /\ \E k \in 1..Len(value.entries) : value.entries[k].k = step.key
  THEN value.entries[CHOOSE k \in 1..Len(value.entries) :
                       value.entries[k].k = step.key].v
  ELSE Missing

RECURSIVE Positions(_)
Positions(value) ==
  {<<>>} \cup UNION {{<<step>> \o pos : pos \in Positions(ChildAt(value, step))} :
                     step \in StepsOf(value)}

RECURSIVE NodeAt(_, _)
NodeAt(value, pos) ==
  IF pos = <<>> THEN value ELSE NodeAt(ChildAt(value, Head(pos)), Tail(pos))

\* the place is the value of an object entry whose key is a sensitive field name
UnderSensitiveKey(pos) ==
  pos # <<>> /\ IsKeyStep(pos[Len(pos)]) /\ pos[Len(pos)].key \in SENSITIVE_FIELDS

\* the field path of a place: key, parent.key, parent[index]
RECURSIVE PathOf(_)
PathOf(pos) ==
  IF pos = <<>> THEN ""
  ELSE LET parent == PathOf(SubSeq(pos, 1, Len(pos) - 1))
           step == pos[Len(pos)]
       IN IF IsKeyStep(step)
          THEN (IF Len(pos) = 1 THEN step.key ELSE parent \o "." \o step.key)
          ELSE parent \o "[" \o ToString(step.index) \o "]"

\* the warning is about the field with this path
WarningNames(warning, path) == Contains(warning, "in field '" \o path \o "' truncated")

Returned(c) == c.op # "none" /\ c.outcome.kind = "return"
Threw(c) == c.op # "none" /\ c.outcome.kind = "throw"

(***************************************************************************)
(* C1.  Sensitivity invariant: in every result returned, every field whose *)
(* immediate key is in SENSITIVE_FIELDS, at any nesting level, has exactly *)
(* its input value, and no warning and no fieldsModified entry names its   *)
(* path.                                                                   *)
(***************************************************************************)
C1_SensitiveFieldsUntouched ==
  Returned(call) =>
    \A pos \in Positions(call.input) :
      UnderSensitiveKey(pos) =>
        /\ NodeAt(call.outcome.data, pos) = NodeAt(call.input, pos)
        /\ \A k \in 1..Len(call.outcome.warnings) :
             ~WarningNames(call.outcome.warnings[k], PathOf(pos))
        /\ PathOf(pos) \notin Range(call.metadata.fieldsModified)

(***************************************************************************)
(* C2.  Shape preservation: the data returned has, at every nesting level, *)
(* the keys of the input object and the length and element order of the    *)
(* input array; only string leaves may differ.                             *)
(***************************************************************************)
RECURSIVE SameShape(_, _)
SameShape(a, b) ==
  /\ a.t = b.t
  /\ CASE a.t = "array" ->
            /\ Len(a.items) = Len(b.items)
            /\ \A k \in 1..Len(a.items) : SameShape(a.items[k], b.items[k])
       [] a.t = "object" ->
            /\ StepsOf(a) = StepsOf(b)
            /\ Len(a.entries) = Len(b.entries)
            /\ \A step \in StepsOf(a) : SameShape(ChildAt(a, step), ChildAt(b, step))
       [] a.t = "string" -> TRUE
       [] OTHER -> a = b

C2_ShapePreserved == Returned(call) => SameShape(call.input, call.outcome.data)

\* the field name under which the traversal visits a place
RECURSIVE EngineField(_)
EngineField(pos) ==
  IF pos = <<>> THEN NoField
  ELSE LET parent == EngineField(SubSeq(pos, 1, Len(pos) - 1))
           step == pos[Len(pos)]
       IN IF IsKeyStep(step) THEN FullFieldName(parent, step.key)
          ELSE ItemFieldName(parent, step.index)

\* the places of the string leaves
StringPositions(value) == {pos \in Positions(value) : NodeAt(value, pos).t = "string"}

\* no key on the way to the place is a sensitive field name
NoSensitiveKey(pos) ==
  \A k \in 1..Len(pos) : IsKeyStep(pos[k]) => pos[k].key \notin SENSITIVE_FIELDS

MaxOf(c) == SanitizerConfig(c.config).maxStringLength

\* the filter raised during the call
FilterRaised(c) ==
  c.op # "none" /\ \E k \in 1..Len(c.purifyCalls) : c.purifyCalls[k].raised

WarningsOf(c, pos, length) ==
  {k \in 1..Len(c.outcome.warnings) :
     c.outcome.warnings[k] = TruncationWarning(EngineField(pos), length, MaxOf(c))}

C9_NoErrorsOnReturn ==
  /\ Returned(call) => (~call.outcome.errors.def /\ call.metadata.errors = <<>>)
  /\ (call.op # "none" /\ ~FilterRaised(call)) => Returned(call)
  /\ (call.op # "none" /\ call.metadata.errors # <<>>) => Threw(call)

\* a result returned after both a truncation and a modification by the filter
C9_Witness ==
  /\ Returned(call)
  /\ call.outcome.warnings # <<>>
  /\ call.metadata.fieldsModified # <<>>
  /\ ~call.outcome.errors.def

(***************************************************************************)
(* C4.  Idempotence: sanitizing the data a call returned again, under the  *)
(* same configuration, returns the same data.                              *)
(***************************************************************************)
C4_Idempotent ==
  (Returned(first) /\ Returned(call)) => call.outcome.data = first.outcome.data

(***************************************************************************)
(* C6.  Length ceiling: every string of the returned data that is not      *)
(* under a sensitive field is at most maxStringLength characters long.     *)
(***************************************************************************)
C6_LengthCeiling ==
  Returned(call) =>
    \A pos \in StringPositions(call.outcome.data) :
      NoSensitiveKey(pos) => Len(NodeAt(call.outcome.data, pos).s) <= MaxOf(call)

(***************************************************************************)
(* C7.  Unchanged-input no-op: a call on a tree without string leaves      *)
(* returns sanitized = FALSE, no warnings and data equal to the input, and *)
(* never invokes the markup filter.                                        *)
(***************************************************************************)
C7_NoStringsNoOp ==
  (call.op # "none" /\ StringPositions(call.input) = {}) =>
    /\ Returned(call)
    /\ ~call.outcome.sanitized
    /\ call.outcome.warnings = <<>>
    /\ call.outcome.data = call.input
    /\ call.purifyCalls = <<>>

(***************************************************************************)
(* C8.  The sanitized flag of a result is TRUE exactly when some string    *)
(* leaf was truncated or changed by the filter: sanitized = FALSE implies  *)
(* data equal to the input, sanitized = TRUE implies that a leaf of the    *)
(* data differs from the input or was cut.                                 *)
(***************************************************************************)
C8_SanitizedFlag ==
  Returned(call) =>
    /\ call.outcome.sanitized <=>
         \/ call.outcome.warnings # <<>>
         \/ \E k \in 1..Len(call.purifyCalls) :
              call.purifyCalls[k].output # call.purifyCalls[k].input
    /\ ~call.outcome.sanitized => call.outcome.data = call.input
    /\ call.outcome.sanitized =>
         \/ call.outcome.warnings # <<>>
         \/ \E pos \in StringPositions(call.outcome.data) :
              NodeAt(call.outcome.data, pos) # NodeAt(call.input, pos)

(***************************************************************************)
(* C10.  Unknown-profile failure: a request whose options name a profile   *)
(* that is not one of the named profiles fails with the unknown-profile    *)
(* error before any traversal: next receives the error, sanitizeRequestData*)
(* is not called and the request is left as it was.                        *)
(***************************************************************************)
NamesUnknownProfile(options) ==
  /\ options.config.kind = "name"
  /\ options.config.name # ""
  /\ options.config.name \notin DOMAIN SANITIZATION_CONFIGS

Skipped(run) ==
  /\ run.options.skipPaths.def
  /\ \E k \in 1..Len(run.options.skipPaths.list) :
       Contains(run.before.path, run.options.skipPaths.list[k])

C10_UnknownProfileFails ==
  (mw.ran /\ ~Skipped(mw) /\ NamesUnknownProfile(mw.options)) =>
    /\ GetConfig(mw.options.config.name).error.thrown
    /\ Len(mw.nextCalls) = 1
    /\ mw.nextCalls[1].kind = "error"
    /\ Contains(mw.nextCalls[1].error.message, "Unknown sanitization config")
    /\ mw.sanitizerCalls = <<>>
    /\ mw.req = mw.before

(***************************************************************************)
(* C11.  Profile merge: in the configuration createCustomConfig returns,   *)
(* every field other than allowedAttributes has the overrides' value when  *)
(* the overrides set it and the base's value otherwise (and is absent when *)
(* neither sets it); allowedAttributes has, for every tag of the           *)
(* overrides, the overrides' list, for every tag of the base alone, the    *)
(* base's list, and no other tag.                                          *)
(***************************************************************************)
BaseOf(m) ==
  IF m.base.kind = "name" THEN GetConfig(m.base.name).config ELSE m.base.config

Merged(m) == m.done /\ ~m.outcome.error.thrown

C11_ProfileMerge ==
  Merged(merge) =>
    LET base == BaseOf(merge)
        overrides == merge.overrides
        result == merge.outcome.config
        baseAttributes == OrDefault(base, "allowedAttributes", <<>>)
        overrideAttributes == OrDefault(overrides, "allowedAttributes", <<>>)
    IN /\ \A f \in (DOMAIN SanitizerConfig(EmptyConfig)) \ {"allowedAttributes"} :
            IF Has(overrides, f) THEN Has(result, f) /\ result[f] = overrides[f]
            ELSE IF Has(base, f) THEN Has(result, f) /\ result[f] = base[f]
            ELSE ~Has(result, f)
       /\ Has(result, "allowedAttributes")
       /\ TagsOf(result.allowedAttributes) = TagsOf(baseAttributes) \cup TagsOf(overrideAttributes)
       /\ Len(result.allowedAttributes) = Cardinality(TagsOf(result.allowedAttributes))
       /\ \A tag \in TagsOf(result.allowedAttributes) :
            AttrsOf(result.allowedAttributes, tag) =
              IF tag \in TagsOf(overrideAttributes) THEN AttrsOf(overrideAttributes, tag)
              ELSE AttrsOf(baseAttributes, tag)

\* a named base whose list for one tag is replaced while its other tags stay, and
\* whose scalar fields are partly overridden
C11_Witness ==
  /\ Merged(merge)
  /\ merge.base = [kind |-> "name", name |-> "liberal"]
  /\ Has(merge.overrides, "allowedAttributes")
  /\ TagsOf(merge.overrides.allowedAttributes) = {"img", "video"}
  /\ Has(merge.overrides, "maxStringLength")
  /\ ~Has(merge.overrides, "allowedTags")

(***************************************************************************)
(* C12.  Reported errors: when sanitizeRequestData returned a result whose *)
(* errors list is non-empty, the middleware called onError (if supplied)   *)
(* with an Error and the request, and called next once, with that Error    *)
(* and not without an argument.                                            *)
(***************************************************************************)
ReturnedErrors(run) ==
  /\ run.ran
  /\ Len(run.sanitizerCalls) = 1
  /\ run.sanitizerCalls[1].outcome.kind = "return"
  /\ run.sanitizerCalls[1].outcome.errors.def
  /\ Len(run.sanitizerCalls[1].outcome.errors.list) > 0

C12_ReportedErrors ==
  ReturnedErrors(mw) =>
    /\ Len(mw.nextCalls) = 1
    /\ mw.nextCalls[1].kind = "error"
    /\ mw.nextCalls[1].error.name = "Error"
    /\ mw.onErrorCalls =
         IF mw.options.onError = "absent" THEN <<>>
         ELSE <<[error |-> mw.nextCalls[1].error, req |-> mw.req]>>

\* a result with two errors reached a middleware that has an onError callback and
\* whose onSanitized callback returned
C12_Witness ==
  /\ ReturnedErrors(mw)
  /\ Len(mw.sanitizerCalls[1].outcome.errors.list) = 2
  /\ mw.options.onError = "present"
  /\ Len(mw.onSanitizedCalls) = 1
  /\ mw.options.onSanitized = "returns"
  /\ mw.nextCalls[1].error.message = "Sanitization errors: fail, again"

(***************************************************************************)
(* C13.  sanitizeStrings: after the middleware ran on a body, every        *)
(* top-level value under a key of SENSITIVE_FIELDS or of                   *)
(* customSensitiveFields is unchanged, every top-level value that is not a *)
(* string is unchanged, and every other top-level string is replaced by    *)
(* the sanitizer's output for it, or unchanged when skipEmptyStrings is    *)
(* set and the string is empty or made of white space.                     *)
(***************************************************************************)
\* the run was on a body with top-level values
RanOnEntries(run) == run.ran /\ run.before.t \in {"object", "array"}

\* entry k keeps its value: its key is sensitive or its value is no string
Exempt(run, k) ==
  LET entry == BodyEntries(run.before)[k]
  IN \/ entry.k \in SENSITIVE_FIELDS
     \/ /\ run.options.customSensitiveFields.def
        /\ entry.k \in Range(run.options.customSensitiveFields.list)
     \/ entry.v.t # "string"

\* entry k is a string that skipEmptyStrings passes over
SkippedEmpty(run, k) ==
  run.options.skipEmptyStrings /\ Trim(BodyEntries(run.before)[k].v.s) = ""

\* entry k holds what the sanitizer returns for its string
Replaced(run, k) ==
  LET r == ApplySanitizer(run.options.sanitizer, BodyEntries(run.before)[k].v.s)
  IN ~r.error.thrown => BodyEntries(run.body)[k].v = Str(r.value)

Unchanged(run, k) == BodyEntries(run.body)[k] = BodyEntries(run.before)[k]

\* the first entry on whose string the sanitizer throws, 0 when there is none
FailingEntry(run) ==
  LET failing == {k \in 1..Len(BodyEntries(run.before)) :
                    /\ ~Exempt(run, k)
                    /\ ~SkippedEmpty(run, k)
                    /\ ApplySanitizer(run.options.sanitizer,
                                      BodyEntries(run.before)[k].v.s).error.thrown}
  IN IF failing = {} THEN 0 ELSE CHOOSE k \in failing : \A j \in failing : k <= j

FilteredTruncated(c, leaf) ==
  LET cfg == SanitizerConfig(c.config)
      cut == IF Len(leaf) > cfg.maxStringLength
             THEN Truncate(leaf, cfg.maxStringLength) ELSE leaf
  IN DOMPurifySanitize(cut, PurifyConfig(cfg))

C15_ImmediateKeyOnly ==
  Returned(call) =>
    \A pos \in StringPositions(call.input) :
      (pos # <<>> /\ IsKeyStep(pos[Len(pos)]) /\ ~UnderSensitiveKey(pos)) =>
        NodeAt(call.outcome.data, pos) =
          Str(FilteredTruncated(call, NodeAt(call.input, pos).s))

(***************************************************************************)
(* C16.  Warning accumulation: the warnings of a result returned are, in   *)
(* depth-first order (object entries in key order, array elements by       *)
(* index), one entry for each processed string leaf longer than            *)
(* maxStringLength and no other entry, each naming the field path of its   *)
(* leaf (key, parent.key, parent[index]), the original length and          *)
(* maxStringLength.                                                        *)
(***************************************************************************)
\* the places of the string leaves of the value at place pos, in traversal order
RECURSIVE LeavesInOrder(_, _)
RECURSIVE LeavesOfChildren(_, _, _)
LeavesOfChildren(value, pos, k) ==
  LET n == IF value.t = "array" THEN Len(value.items) ELSE Len(value.entries)
      step == IF value.t = "array" THEN IndexStep(k - 1) ELSE KeyStep(value.entries[k].k)
      child == IF value.t = "array" THEN value.items[k] ELSE value.entries[k].v
  IN IF k > n THEN <<>>
     ELSE LeavesInOrder(child, Append(pos, step)) \o LeavesOfChildren(value, pos, k + 1)

LeavesInOrder(value, pos) ==
  IF value.t = "string" THEN <<pos>>
  ELSE IF value.t \in {"array", "object"} THEN LeavesOfChildren(value, pos, 1)
  ELSE <<>>

\* the traversal reaches the place: it meets no sensitive field name on the way
Processed(pos) ==
  \A k \in 1..Len(pos) : ~IsSensitive(EngineField(SubSeq(pos, 1, k)))

\* the warning that names this path and these lengths
WarningFor(path, originalLength, maxStringLength) ==
  "String in field '" \o path \o "' truncated from " \o ToString(originalLength)
  \o " to " \o ToString(maxStringLength) \o " characters"

\* the warnings of the leaves listed, for the input and configuration of call c
RECURSIVE WarningsFor(_, _)
WarningsFor(c, leaves) ==
  IF leaves = <<>> THEN <<>>
  ELSE LET pos == Head(leaves)
           length == Len(NodeAt(c.input, pos).s)
       IN (IF Processed(pos) /\ length > MaxOf(c)
           THEN <<WarningFor(PathOf(pos), length, MaxOf(c))>> ELSE <<>>)
          \o WarningsFor(c, Tail(leaves))

C16_WarningAccumulation ==
  (Returned(call) /\ call.op = "sanitizeRequestData") =>
    call.outcome.warnings = WarningsFor(call, LeavesInOrder(call.input, <<>>))

(***************************************************************************)
(* C17.  Per-tag attribute allow-list: in what the markup filter returns   *)
(* for a string, an element t carries an attribute a only if a is in the   *)
(* configuration's allowedAttributes[t]; an attribute listed for another   *)
(* tag only is not carried.                                                *)
(***************************************************************************)
\* the <<tag, attribute>> pairs of the elements written in the markup, from i on
RECURSIVE TagAttributes(_, _)
TagAttributes(markup, i) ==
  IF i > Len(markup) THEN {}
  ELSE IF CharAt(markup, i) = "<" /\ CharAt(markup, i + 1) \in Letters
  THEN LET e == NameEnd(markup, i + 1)
           gt == FindGt(markup, e + 1)
           attribute == AttributeOf(markup, e, gt)
       IN (IF attribute.present THEN {<<SubSeq(markup, i + 1, e), attribute.name>>} ELSE {})
          \cup TagAttributes(markup, e + 1)
  ELSE TagAttributes(markup, i + 1)

\* the configuration lists the attribute for the tag
ListedFor(config, tag, attribute) ==
  LET allowedAttributes == SanitizerConfig(config).allowedAttributes
  IN tag \in TagsOf(allowedAttributes)
     /\ attribute \in Range(AttrsOf(allowedAttributes, tag))

C17_PerTagAttributes ==
  call.op # "none" =>
    \A k \in 1..Len(call.purifyCalls) :
      \A pair \in TagAttributes(call.purifyCalls[k].output, 1) :
        ListedFor(call.config, pair[1], pair[2])

(***************************************************************************)
(* C18.  The sanitizeRequest middleware calls next exactly once for a      *)
(* request, with no argument or with an error, whatever the options, the   *)
(* body and the behaviour of the sanitizer and of onSanitized.             *)
(***************************************************************************)
C18_NextExactlyOnce ==
  mw.ran =>
    /\ Len(mw.nextCalls) = 1
    /\ mw.nextCalls[1].kind \in {"none", "error"}
    /\ mw.nextCalls[1].kind = "error" => mw.nextCalls[1].error.thrown

\* onSanitized threw after the body had been replaced, and next got the error
C18_Witness ==
  /\ mw.ran
  /\ mw.options.onSanitized = "throws"
  /\ Len(mw.onSanitizedCalls) = 1
  /\ mw.req.body # mw.before.body
  /\ mw.nextCalls = <<ErrorArgument(JsError("Request sanitization failed: onSanitized-failure"))>>

(***************************************************************************)
(* C19.  A thrown failure leaves the request untouched: when the           *)
(* resolution of the configuration or sanitizeRequestData throws, req.body *)
(* is the original payload, req._sanitization is not set, onSanitized is   *)
(* not called, and onError (if supplied) and next receive one and the same *)
(* error: the SanitizationError thrown when it is one, otherwise a new     *)
(* Error that wraps the message of what was thrown.                        *)
(***************************************************************************)
\* what was thrown in the run: by getConfig, or by sanitizeRequestData
ThrownIn(run) ==
  IF ResolveConfig(run.options.config).error.thrown
  THEN ResolveConfig(run.options.config).error
  ELSE IF Len(run.sanitizerCalls) = 1 /\ run.sanitizerCalls[1].outcome.kind = "throw"
  THEN run.sanitizerCalls[1].outcome.error
  ELSE NotThrown

C19_ThrownFailureLeavesRequest ==
  (mw.ran /\ ~Skipped(mw) /\ ThrownIn(mw).thrown) =>
    LET thrown == ThrownIn(mw)
        passed == IF thrown.name = "SanitizationError" THEN thrown
                  ELSE [thrown |-> TRUE, name |-> "Error",
                        message |-> "Request sanitization failed: " \o thrown.message]
    IN /\ mw.req = mw.before
       /\ ~mw.req.sanitization.def
       /\ mw.onSanitizedCalls = <<>>
       /\ mw.nextCalls = <<[kind |-> "error", error |-> passed]>>
       /\ mw.onErrorCalls = IF mw.options.onError = "absent" THEN <<>>
                            ELSE <<[error |-> passed, req |-> mw.before]>>

\* the filter raised on the second string of a body whose first string had been
\* cut, in a run with an onError callback
C19_Witness ==
  /\ mw.ran
  /\ Len(mw.sanitizerCalls) = 1
  /\ mw.sanitizerCalls[1].outcome.kind = "throw"
  /\ mw.sanitizerCalls[1].outcome.error.name = "SanitizationError"
  /\ mw.sanitizerCalls[1].metadata.warnings # <<>>
  /\ mw.options.onError = "present"
  /\ Len(mw.onErrorCalls) = 1

====
